---- MODULE Spec2Model ----
(***************************************************************************)
(* A model of RuntimeMeshSection.h: FRuntimeMeshSectionInterface and       *)
(* FRuntimeMeshSection<VertexType>.  One mesh section, its buffers, its    *)
(* bounding box, the snapshots handed to the render thread and the         *)
(* versioned serialization of its persistent fields.                       *)
(***************************************************************************)
EXTENDS Integers, Sequences, FiniteSets, TLC

\* ------------------------------------------------------------------ bounds

\* Longest position / vertex array the callers pass in.
MaxLen == 2

\* Highest archive custom version a stream is written or read at.
MaxVersion == 4

\* FRuntimeMeshVersion::DualVertexBuffer, the version that introduced the
\* separate position buffer.
DualVertexBuffer == 3

\* ------------------------------------------------------------ input domains

ZeroVector == <<0, 0, 0>>

\* FVector values the callers use: the origin, and points off it on every
\* axis and on both sides of it.
Points == { ZeroVector, <<1, 0, -1>>, <<-1, 1, 0>> }

\* All sequences over S of length at most n.
SeqsUpTo(S, n) == UNION { [1..k -> S] : k \in 0..n }

PositionArrays == SeqsUpTo(Points, MaxLen)

\* A vertex of a type with FRuntimeMeshVertexTraits<Type>::HasPosition: the
\* position is a field of the record.
PositionVertices == { [Position |-> p, Color |-> 0] : p \in Points }

VertexArrays(hasPosition) ==
    IF hasPosition
    THEN SeqsUpTo(PositionVertices, MaxLen)
    \* vertices of a type without a position component
    ELSE { <<>>, <<[Color |-> 0]>>, <<[Color |-> 1], [Color |-> 0]>> }

\* The arrays passed by the calls a specification is not about: an empty one
\* and one of two elements.
SmallPositionArrays == { <<>>, <<<<1, 0, -1>>, <<-1, 1, 0>>>> }

SmallVertexArrays(hasPosition) ==
    IF hasPosition
    THEN { <<>>,
           <<[Position |-> <<-1, 1, 0>>, Color |-> 0], [Position |-> ZeroVector, Color |-> 0]>> }
    ELSE { <<>>, <<[Color |-> 1], [Color |-> 0]>> }

IndexArrays == { <<>>, <<0, 1, 0>> }

TessellationArrays == { <<>>, <<0, 1, 0, 0, 0, 1>> }

\* The values the library computes for a vertex's normal and tangent, held in
\* the vertex's attribute field: one a caller also supplies, one no caller does.
TangentSamples == { 0, 7 }

TangentArrays == SeqsUpTo(TangentSamples, MaxLen)

SmallTangentArrays == { <<>>, <<7, 0>> }

\* ---------------------------------------------------------------- FBox

Min2(a, b) == IF a < b THEN a ELSE b

Max2(a, b) == IF a > b THEN a ELSE b

\* FBox(0): zero extent, marked invalid.
FBox_Zero == [Min |-> ZeroVector, Max |-> ZeroVector, IsValid |-> 0]

\* FBox::operator+=(const FVector&): the first point of an invalid box becomes
\* its extent, later points widen it.
FBox_AddPoint(Box, V) ==
    IF Box.IsValid = 1
    THEN [Min |-> <<Min2(Box.Min[1], V[1]), Min2(Box.Min[2], V[2]), Min2(Box.Min[3], V[3])>>,
          Max |-> <<Max2(Box.Max[1], V[1]), Max2(Box.Max[2], V[2]), Max2(Box.Max[3], V[3])>>,
          IsValid |-> 1]
    ELSE [Min |-> V, Max |-> V, IsValid |-> 1]

\* FBox::operator==: compares the extents, Min and Max.
FBox_Equals(A, B) == A.Min = B.Min /\ A.Max = B.Max

\* Boxes a caller passes as an explicit bounding box.
ExplicitBoxes ==
    { [Min |-> ZeroVector, Max |-> ZeroVector, IsValid |-> 1],
      [Min |-> <<-1, -1, -1>>, Max |-> <<1, 1, 1>>, IsValid |-> 1] }

\* const FBox* BoundingBox: <<>> is nullptr, <<B>> points at B.
BoxPointers == { <<>> } \cup { <<B>> : B \in ExplicitBoxes }

\* ------------------------------------------------------------------ state

VARIABLES
    alive,                          \* the section has been constructed and not destroyed
    bNeedsPositionOnlyBuffer,       \* constructor argument, const
    HasPosition,                    \* FRuntimeMeshVertexTraits<VertexType>::HasPosition
    PositionVertexBuffer,
    VertexBuffer,
    IndexBuffer,
    TessellationIndexBuffer,
    LocalBoundingBox,
    CollisionEnabled,
    bIsVisible,
    bCastsShadow,
    bShouldUseAdjacencyIndexBuffer,
    UpdateFrequency,
    call,                           \* the last call made on the section and what it returned
    explicitUsed,                   \* some call since construction passed a bounding box
    Payload,                        \* the last snapshot handed to the render thread
    Ar,                             \* the archive: version and stream
    Saved                           \* the section as it was when Ar was written

buffers == <<PositionVertexBuffer, VertexBuffer, IndexBuffer, TessellationIndexBuffer>>

flags == <<CollisionEnabled, bIsVisible, bCastsShadow, bShouldUseAdjacencyIndexBuffer,
           UpdateFrequency>>

layout == <<bNeedsPositionOnlyBuffer, HasPosition>>

vars == <<alive, layout, buffers, LocalBoundingBox, flags, call, explicitUsed, Payload, Ar,
          Saved>>

\* EUpdateFrequency: Average, Infrequent, Frequent.
UpdateFrequencies == 0..2

\* The value of a member no constructor initializes.
Indeterminate == -1

\* FRuntimeMeshSection<VertexType>(bool bInNeedsPositionOnlyBuffer): the buffer
\* mode is the constructor's argument and the vertex type the template's, and
\* neither constrains the other.
SectionLayouts == BOOLEAN \X BOOLEAN

NoCall == [op |-> "none", arg |-> <<>>, box |-> <<>>, move |-> FALSE, ret |-> FALSE,
           num |-> 0, before |-> <<>>, after |-> <<>>]

NoArchive == [ver |-> 0, data |-> <<>>, written |-> FALSE]

\* FRuntimeMeshSectionInterface(bool) and FRuntimeMeshSection(bool): the arrays
\* are empty, the box is FBox(0); bShouldUseAdjacencyIndexBuffer and
\* UpdateFrequency are not initialized.
Init ==
    /\ alive = TRUE
    /\ \E l \in SectionLayouts : bNeedsPositionOnlyBuffer = l[1] /\ HasPosition = l[2]
    /\ PositionVertexBuffer = <<>>
    /\ VertexBuffer = <<>>
    /\ IndexBuffer = <<>>
    /\ TessellationIndexBuffer = <<>>
    /\ LocalBoundingBox = FBox_Zero
    /\ CollisionEnabled = FALSE
    /\ bIsVisible = TRUE
    /\ bCastsShadow = TRUE
    /\ bShouldUseAdjacencyIndexBuffer \in BOOLEAN
    /\ UpdateFrequency = Indeterminate
    /\ call = NoCall
    /\ explicitUsed = FALSE
    /\ Payload = <<>>
    /\ Ar = NoArchive
    /\ Saved = <<>>

IsDualBufferSection == bNeedsPositionOnlyBuffer

\* ------------------------------------------------- bounding box computation

\* for (VertexIdx = 0; VertexIdx < Buffer.Num(); VertexIdx++) Box += Buffer[VertexIdx]
RECURSIVE ScanPositions(_, _, _)
ScanPositions(Box, Buffer, i) ==
    IF i > Len(Buffer) THEN Box
    ELSE ScanPositions(FBox_AddPoint(Box, Buffer[i]), Buffer, i + 1)

\* The same loop over the Position field of the vertex records.
RECURSIVE ScanVertexPositions(_, _, _)
ScanVertexPositions(Box, Buffer, i) ==
    IF i > Len(Buffer) THEN Box
    ELSE ScanVertexPositions(FBox_AddPoint(Box, Buffer[i].Position), Buffer, i + 1)

\* The copy path without a bounding box: copies element by element into the
\* resized buffer and widens the box in the same loop.
RECURSIVE CopyAndScanPositions(_, _, _, _)
CopyAndScanPositions(Box, Dest, Source, i) ==
    IF i > Len(Source) THEN [Box |-> Box, Buffer |-> Dest]
    ELSE CopyAndScanPositions(FBox_AddPoint(Box, Source[i]),
                              [Dest EXCEPT ![i] = Source[i]], Source, i + 1)

RECURSIVE CopyAndScanVertices(_, _, _, _)
CopyAndScanVertices(Box, Dest, Source, i) ==
    IF i > Len(Source) THEN [Box |-> Box, Buffer |-> Dest]
    ELSE CopyAndScanVertices(FBox_AddPoint(Box, Source[i].Position),
                             [Dest EXCEPT ![i] = Source[i]], Source, i + 1)

\* TArray::SetNumUninitialized(n): n slots; the slots kept from before hold
\* their old elements, the new ones hold nothing yet.
SetNumUninitialized(Buffer, n, filler) ==
    [i \in 1..n |-> IF i <= Len(Buffer) THEN Buffer[i] ELSE filler]

\* UpdateVertexPositionBuffer with the supplied bounding box ignored: the box
\* is always rescanned from the positions.
NewPositionStateRescanning(Current, Positions, BoundingBox, bShouldMoveArray) ==
    [Buffer |-> Positions, Box |-> ScanPositions(FBox_Zero, Positions, 1)]

\* The new buffer and the new bounding box of UpdateVertexPositionBuffer.
NewPositionState(Current, Positions, BoundingBox, bShouldMoveArray) ==
    IF bShouldMoveArray
    THEN [Buffer |-> Positions,
          Box |-> IF BoundingBox = <<>>
                  THEN ScanPositions(FBox_Zero, Positions, 1)
                  ELSE BoundingBox[1]]
    ELSE IF BoundingBox = <<>>
         THEN CopyAndScanPositions(FBox_Zero,
                  SetNumUninitialized(Current, Len(Positions), ZeroVector), Positions, 1)
         ELSE [Buffer |-> Positions, Box |-> BoundingBox[1]]

\* The comparison left out: every update reports new bounds.
BoundsAlwaysChanged(Old, New) == TRUE

\* if (!(LocalBoundingBox == NewBoundingBox)) { LocalBoundingBox = NewBoundingBox; return true; }
BoundsChanged(Old, New) == ~FBox_Equals(Old, New)

StoreBounds(Old, New) == IF BoundsChanged(Old, New) THEN New ELSE Old

\* ------------------------------------------------------ the mutator's calls

UpdateVertexPositionBuffer(Positions, BoundingBox, bShouldMoveArray) ==
    LET new == NewPositionState(PositionVertexBuffer, Positions, BoundingBox, bShouldMoveArray)
    IN  /\ alive
        /\ PositionVertexBuffer' = new.Buffer
        /\ LocalBoundingBox' = StoreBounds(LocalBoundingBox, new.Box)
        /\ call' = [NoCall EXCEPT !.op = "UpdateVertexPositionBuffer",
                                  !.arg = Positions,
                                  !.box = BoundingBox,
                                  !.move = bShouldMoveArray,
                                  !.ret = BoundsChanged(LocalBoundingBox, new.Box)]
        /\ explicitUsed' = (explicitUsed \/ BoundingBox /= <<>>)
        /\ UNCHANGED <<alive, layout, VertexBuffer, IndexBuffer, TessellationIndexBuffer,
                       flags, Payload, Ar, Saved>>

\* TArray copy and move assignment both leave the destination holding the
\* source's elements.
UpdateIndexBuffer(Triangles, bShouldMoveArray) ==
    /\ alive
    /\ IndexBuffer' = Triangles
    /\ call' = [NoCall EXCEPT !.op = "UpdateIndexBuffer"]
    /\ UNCHANGED <<alive, layout, PositionVertexBuffer, VertexBuffer, TessellationIndexBuffer,
                   LocalBoundingBox, flags, explicitUsed, Payload, Ar, Saved>>

UpdateTessellationIndexBuffer(Triangles, bShouldMoveArray) ==
    /\ alive
    /\ TessellationIndexBuffer' = Triangles
    /\ call' = [NoCall EXCEPT !.op = "UpdateTessellationIndexBuffer"]
    /\ UNCHANGED <<alive, layout, PositionVertexBuffer, VertexBuffer, IndexBuffer,
                   LocalBoundingBox, flags, explicitUsed, Payload, Ar, Saved>>

\* RuntimeMeshSectionInternal::UpdateVertexBufferInternal for a vertex type
\* with a position: the new buffer, the new bounding box, the return value.
UpdateVertexBufferWithPosition(Current, Box, Vertices, BoundingBox, bShouldMoveArray) ==
    LET new == IF bShouldMoveArray
               THEN [Buffer |-> Vertices,
                     Box |-> IF BoundingBox = <<>>
                             THEN ScanVertexPositions(FBox_Zero, Vertices, 1)
                             ELSE BoundingBox[1]]
               ELSE IF BoundingBox = <<>>
                    THEN CopyAndScanVertices(FBox_Zero,
                             SetNumUninitialized(Current, Len(Vertices),
                                                 [Position |-> ZeroVector, Color |-> 0]),
                             Vertices, 1)
                    ELSE [Buffer |-> Vertices, Box |-> BoundingBox[1]]
    IN  [Buffer |-> new.Buffer,
         Box |-> StoreBounds(Box, new.Box),
         ret |-> BoundsChanged(Box, new.Box)]

\* The overload for a vertex type without a position.
UpdateVertexBufferWithoutPosition(Current, Box, Vertices, BoundingBox, bShouldMoveArray) ==
    [Buffer |-> Vertices, Box |-> Box, ret |-> FALSE]

\* The overload the vertex type selects.
UpdateVertexBufferInternal(hasPosition, Current, Box, Vertices, BoundingBox, bShouldMoveArray) ==
    IF hasPosition
    THEN UpdateVertexBufferWithPosition(Current, Box, Vertices, BoundingBox, bShouldMoveArray)
    ELSE UpdateVertexBufferWithoutPosition(Current, Box, Vertices, BoundingBox, bShouldMoveArray)

UpdateVertexBuffer(Vertices, BoundingBox, bShouldMoveArray) ==
    LET r == UpdateVertexBufferInternal(HasPosition, VertexBuffer, LocalBoundingBox,
                                        Vertices, BoundingBox, bShouldMoveArray)
    IN  /\ alive
        /\ VertexBuffer' = r.Buffer
        /\ LocalBoundingBox' = r.Box
        /\ call' = [NoCall EXCEPT !.op = "UpdateVertexBuffer",
                                  !.arg = Vertices,
                                  !.box = BoundingBox,
                                  !.move = bShouldMoveArray,
                                  !.ret = r.ret]
        /\ explicitUsed' = (explicitUsed \/ BoundingBox /= <<>>)
        /\ UNCHANGED <<alive, layout, PositionVertexBuffer, IndexBuffer,
                       TessellationIndexBuffer, flags, Payload, Ar, Saved>>

\* RuntimeMeshSectionInternal::RecalculateBoundingBox, both overloads.
RecalculateBoundingBoxInternal(hasPosition, Buffer, BoundingBox) ==
    IF hasPosition THEN ScanVertexPositions(BoundingBox, Buffer, 1) ELSE BoundingBox

\* LocalBoundingBox.Init(), then the scan of the position source.
RecalculatedBox ==
    IF IsDualBufferSection
    THEN ScanPositions(FBox_Zero, PositionVertexBuffer, 1)
    ELSE RecalculateBoundingBoxInternal(HasPosition, VertexBuffer, FBox_Zero)

RecalculateBoundingBox ==
    /\ alive
    /\ LocalBoundingBox' = RecalculatedBox
    /\ call' = [NoCall EXCEPT !.op = "RecalculateBoundingBox"]
    /\ UNCHANGED <<alive, layout, buffers, flags, explicitUsed, Payload, Ar, Saved>>

\* RuntimeMeshSectionInternal::GetAllVertexPositions for a vertex type with a
\* position: the caller's array afterwards and the count returned.
AllPositionsOfVertices(Vertices, PositionBuffer, Positions) ==
    [Positions |-> Positions \o [i \in 1..Len(Vertices) |-> Vertices[i].Position],
     num |-> Len(Vertices)]

\* The overload for a vertex type without a position.
AllPositionsOfPositionBuffer(Vertices, PositionBuffer, Positions) ==
    [Positions |-> Positions \o PositionBuffer,
     num |-> Len(PositionBuffer)]

AllVertexPositions(hasPosition, Vertices, PositionBuffer, Positions) ==
    IF hasPosition
    THEN AllPositionsOfVertices(Vertices, PositionBuffer, Positions)
    ELSE AllPositionsOfPositionBuffer(Vertices, PositionBuffer, Positions)

GetAllVertexPositions(Positions) ==
    LET r == AllVertexPositions(HasPosition, VertexBuffer, PositionVertexBuffer, Positions)
    IN  /\ alive
        /\ call' = [NoCall EXCEPT !.op = "GetAllVertexPositions",
                                  !.before = Positions,
                                  !.after = r.Positions,
                                  !.num = r.num]
        /\ UNCHANGED <<alive, layout, buffers, LocalBoundingBox, flags, explicitUsed,
                       Payload, Ar, Saved>>

\* The arrays a caller of GetAllVertexPositions passes: an empty one, or one
\* that already holds the positions of an earlier section.
OutArrays == { <<>>, <<<<1, 0, -1>>>> }

\* ------------------------------------------------------- tessellation

\* The positions the URuntimeMeshLibrary overloads work from: the position
\* buffer handed in beside the vertex buffer, or the vertices' own positions.
PositionsOfVertices(hasPosition, Vertices) ==
    IF hasPosition THEN [i \in 1..Len(Vertices) |-> Vertices[i].Position] ELSE <<>>

\* URuntimeMeshLibrary::GenerateTessellationIndexBuffer: for every complete
\* triangle of the index buffer its three indices followed by the vertices
\* opposite its three edges; nothing for an index buffer without a triangle.
RECURSIVE GenerateTessellationIndexBuffer(_, _, _, _)
GenerateTessellationIndexBuffer(Positions, Vertices, Indices, i) ==
    IF i + 2 > Len(Indices) THEN <<>>
    ELSE <<Indices[i], Indices[i + 1], Indices[i + 2],
           Indices[i + 2], Indices[i], Indices[i + 1]>>
         \o GenerateTessellationIndexBuffer(Positions, Vertices, Indices, i + 3)

\* Builds the buffer from the section's position source and stores it with
\* UpdateTessellationIndexBuffer(.., true).
GenerateTessellationIndices ==
    LET TessellationIndices ==
            IF IsDualBufferSection
            THEN GenerateTessellationIndexBuffer(PositionVertexBuffer, VertexBuffer,
                                                 IndexBuffer, 1)
            ELSE GenerateTessellationIndexBuffer(PositionsOfVertices(HasPosition, VertexBuffer),
                                                 VertexBuffer, IndexBuffer, 1)
    IN  /\ alive
        /\ TessellationIndexBuffer' = TessellationIndices
        /\ call' = [NoCall EXCEPT !.op = "GenerateTessellationIndices"]
        /\ UNCHANGED <<alive, layout, PositionVertexBuffer, VertexBuffer, IndexBuffer,
                       LocalBoundingBox, flags, explicitUsed, Payload, Ar, Saved>>

\* URuntimeMeshLibrary::CalculateTangentsForMesh: the vertex buffer is the one
\* array it writes. Every vertex keeps its place and its position and receives
\* the attribute computed for it.
CalculateTangentsForMesh(Positions, Vertices, Indices, Tangents) ==
    [i \in 1..Len(Vertices) |-> [Vertices[i] EXCEPT !.Color = Tangents[i]]]

\* The library is given the position buffer beside the vertex buffer on a
\* dual-buffer section, the vertex buffer alone otherwise.
GenerateNormalTangent(Tangents) ==
    /\ alive
    /\ Tangents \in [1..Len(VertexBuffer) -> TangentSamples]
    /\ VertexBuffer' =
          IF IsDualBufferSection
          THEN CalculateTangentsForMesh(PositionVertexBuffer, VertexBuffer,
                                        IndexBuffer, Tangents)
          ELSE CalculateTangentsForMesh(PositionsOfVertices(HasPosition, VertexBuffer), VertexBuffer,
                                        IndexBuffer, Tangents)
    /\ call' = [NoCall EXCEPT !.op = "GenerateNormalTangent"]
    /\ UNCHANGED <<alive, layout, PositionVertexBuffer, IndexBuffer, TessellationIndexBuffer,
                   LocalBoundingBox, flags, explicitUsed, Payload, Ar, Saved>>

\* bShouldUseAdjacencyIndexBuffer is a public member: the owner writes it.
SetShouldUseAdjacencyIndexBuffer(b) ==
    /\ alive
    /\ bShouldUseAdjacencyIndexBuffer' = b
    /\ call' = [NoCall EXCEPT !.op = "SetShouldUseAdjacencyIndexBuffer", !.ret = b]
    /\ UNCHANGED <<alive, layout, buffers, LocalBoundingBox, CollisionEnabled, bIsVisible,
                   bCastsShadow, UpdateFrequency, explicitUsed, Payload, Ar, Saved>>

\* ----------------------------------------------------------- snapshots

\* The section's array of that name.
SectionArray(name) ==
    CASE name = "PositionVertexBuffer" -> PositionVertexBuffer
      [] name = "VertexBuffer" -> VertexBuffer
      [] name = "IndexBuffer" -> IndexBuffer
      [] name = "TessellationIndexBuffer" -> TessellationIndexBuffer

\* A payload array that refers to the section's storage instead of owning its
\* elements.
ViewOfArray(name) == [owned |-> FALSE, of |-> name, data |-> <<>>]

\* UpdateData->X = X: TArray copy assignment, the payload's array owns a copy
\* of the elements.
CopyOfArray(name) == [owned |-> TRUE, of |-> name, data |-> SectionArray(name)]

\* A payload array nothing was assigned to.
EmptyArray == [owned |-> TRUE, of |-> "", data |-> <<>>]

\* What the holder of a payload array reads in it.
Contents(Array) == IF Array.owned THEN Array.data ELSE SectionArray(Array.of)

\* The index selection with the test of the tessellation buffer's size left out.
ActiveIndexArrayByFlag(useAdjacency) ==
    IF useAdjacency THEN "TessellationIndexBuffer" ELSE "IndexBuffer"

\* if (bShouldUseAdjacencyIndexBuffer && TessellationIndexBuffer.Num() > 0)
ActiveIndexArray(useAdjacency) ==
    IF useAdjacency /\ Len(TessellationIndexBuffer) > 0
    THEN "TessellationIndexBuffer"
    ELSE "IndexBuffer"

\* The flag only ever raised by a creation, never cleared.
AdjacencyLatched(current, proxyShouldUse) == current \/ proxyShouldUse

\* const_cast<FRuntimeMeshSection*>(this)->bShouldUseAdjacencyIndexBuffer =
\*     UpdateData->NewProxy->ShouldUseAdjacencyIndexBuffer();
AdjacencyAfterCreation(current, proxyShouldUse) == proxyShouldUse

\* An update payload copying a buffer whether or not its flag asks for it.
AlwaysCopied(include, name) == CopyOfArray(name)

\* if (bInclude...) UpdateData->X = X;
CopiedIfIncluded(include, name) == IF include THEN CopyOfArray(name) ELSE EmptyArray

\* proxyShouldUse is what the new proxy's ShouldUseAdjacencyIndexBuffer()
\* answers for the material and the scene.
GetSectionCreationData(proxyShouldUse) ==
    LET useAdjacency == AdjacencyAfterCreation(bShouldUseAdjacencyIndexBuffer, proxyShouldUse)
        active == ActiveIndexArray(useAdjacency)
    IN  /\ alive
        /\ bShouldUseAdjacencyIndexBuffer' = useAdjacency
        /\ Payload' = << [kind |-> "Creation",
                          PositionVertexBuffer |-> IF IsDualBufferSection
                                                   THEN CopyOfArray("PositionVertexBuffer")
                                                   ELSE EmptyArray,
                          VertexBuffer |-> CopyOfArray("VertexBuffer"),
                          IndexBuffer |-> CopyOfArray(active),
                          bIsAdjacencyIndexBuffer |-> (active = "TessellationIndexBuffer"),
                          bIncludePositionBuffer |-> FALSE,
                          bIncludeVertexBuffer |-> FALSE,
                          bIncludeIndices |-> FALSE] >>
        /\ call' = [NoCall EXCEPT !.op = "GetSectionCreationData", !.ret = proxyShouldUse]
        /\ UNCHANGED <<alive, layout, buffers, LocalBoundingBox, CollisionEnabled, bIsVisible,
                       bCastsShadow, UpdateFrequency, explicitUsed, Ar, Saved>>

\* unsetAdjacency is the value bIsAdjacencyIndexBuffer holds when no index
\* buffer is included and nothing assigns it.
GetSectionUpdateData(bIncludePositionVertices, bIncludeVertices, bIncludeIndices, unsetAdjacency) ==
    LET active == ActiveIndexArray(bShouldUseAdjacencyIndexBuffer)
    IN  /\ alive
        /\ Payload' = << [kind |-> "Update",
                          PositionVertexBuffer |->
                              CopiedIfIncluded(bIncludePositionVertices, "PositionVertexBuffer"),
                          VertexBuffer |-> CopiedIfIncluded(bIncludeVertices, "VertexBuffer"),
                          IndexBuffer |-> CopiedIfIncluded(bIncludeIndices, active),
                          bIsAdjacencyIndexBuffer |->
                              IF bIncludeIndices
                              THEN active = "TessellationIndexBuffer"
                              ELSE unsetAdjacency,
                          bIncludePositionBuffer |-> bIncludePositionVertices,
                          bIncludeVertexBuffer |-> bIncludeVertices,
                          bIncludeIndices |-> bIncludeIndices] >>
        /\ call' = [NoCall EXCEPT !.op = "GetSectionUpdateData",
                                  !.arg = <<bIncludePositionVertices, bIncludeVertices,
                                            bIncludeIndices>>]
        /\ UNCHANGED <<alive, layout, buffers, LocalBoundingBox, flags, explicitUsed,
                       Ar, Saved>>

GetSectionPositionUpdateData ==
    /\ alive
    /\ Payload' = << [kind |-> "PositionUpdate",
                      PositionVertexBuffer |-> CopyOfArray("PositionVertexBuffer"),
                      VertexBuffer |-> EmptyArray,
                      IndexBuffer |-> EmptyArray,
                      bIsAdjacencyIndexBuffer |-> FALSE,
                      bIncludePositionBuffer |-> FALSE,
                      bIncludeVertexBuffer |-> FALSE,
                      bIncludeIndices |-> FALSE] >>
    /\ call' = [NoCall EXCEPT !.op = "GetSectionPositionUpdateData"]
    /\ UNCHANGED <<alive, layout, buffers, LocalBoundingBox, flags, explicitUsed, Ar, Saved>>

\* ~FRuntimeMeshSection: the section's arrays are released.
DestroySection ==
    /\ alive
    /\ alive' = FALSE
    /\ PositionVertexBuffer' = <<>>
    /\ VertexBuffer' = <<>>
    /\ IndexBuffer' = <<>>
    /\ TessellationIndexBuffer' = <<>>
    /\ call' = [NoCall EXCEPT !.op = "DestroySection"]
    /\ UNCHANGED <<layout, LocalBoundingBox, flags, explicitUsed, Payload, Ar, Saved>>

\* -------------------------------------------------------- serialization

\* CollisionEnabled, bIsVisible and UpdateFrequency are public members: the
\* owner writes them.
SetCollisionEnabled(b) ==
    /\ alive
    /\ CollisionEnabled' = b
    /\ call' = [NoCall EXCEPT !.op = "SetCollisionEnabled", !.ret = b]
    /\ UNCHANGED <<alive, layout, buffers, LocalBoundingBox, bIsVisible, bCastsShadow,
                   bShouldUseAdjacencyIndexBuffer, UpdateFrequency, explicitUsed, Payload,
                   Ar, Saved>>

SetIsVisible(b) ==
    /\ alive
    /\ bIsVisible' = b
    /\ call' = [NoCall EXCEPT !.op = "SetIsVisible", !.ret = b]
    /\ UNCHANGED <<alive, layout, buffers, LocalBoundingBox, CollisionEnabled, bCastsShadow,
                   bShouldUseAdjacencyIndexBuffer, UpdateFrequency, explicitUsed, Payload,
                   Ar, Saved>>

SetUpdateFrequency(f) ==
    /\ alive
    /\ UpdateFrequency' = f
    /\ call' = [NoCall EXCEPT !.op = "SetUpdateFrequency", !.num = f]
    /\ UNCHANGED <<alive, layout, buffers, LocalBoundingBox, CollisionEnabled, bIsVisible,
                   bCastsShadow, bShouldUseAdjacencyIndexBuffer, explicitUsed, Payload,
                   Ar, Saved>>

\* The stream is a sequence of numbers.  Ar << TArray<int32>: the count, then
\* the elements.
WriteIntArray(Array) == <<Len(Array)>> \o Array

RECURSIVE WriteVectors(_, _)
WriteVectors(Array, i) ==
    IF i > Len(Array) THEN <<>> ELSE Array[i] \o WriteVectors(Array, i + 1)

\* Ar << TArray<FVector>: the count, then X, Y, Z of every element.
WriteVectorArray(Array) == <<Len(Array)>> \o WriteVectors(Array, 1)

\* Ar << FBox: Min, Max, IsValid.
WriteBox(Box) == Box.Min \o Box.Max \o <<Box.IsValid>>

\* Ar << bool.
WriteBool(b) == <<IF b THEN 1 ELSE 0>>

\* Ar << int32.
WriteInt32(v) == <<v>>

\* The readers: the value at a position of the stream and the position after it.
ReadIntArray(data, pos) ==
    LET n == data[pos]
    IN  [value |-> [i \in 1..n |-> data[pos + i]], next |-> pos + 1 + n]

ReadVectorArray(data, pos) ==
    LET n == data[pos]
    IN  [value |-> [i \in 1..n |-> <<data[pos + 3 * i - 2], data[pos + 3 * i - 1],
                                     data[pos + 3 * i]>>],
         next |-> pos + 1 + 3 * n]

ReadBox(data, pos) ==
    [value |-> [Min |-> <<data[pos], data[pos + 1], data[pos + 2]>>,
                Max |-> <<data[pos + 3], data[pos + 4], data[pos + 5]>>,
                IsValid |-> data[pos + 6]],
     next |-> pos + 7]

ReadBool(data, pos) == [value |-> data[pos] /= 0, next |-> pos + 1]

ReadInt32(data, pos) == [value |-> data[pos], next |-> pos + 1]

\* (EUpdateFrequency)UpdateFreq: the enumeration is stored in a byte.
ToUpdateFrequency(v) == v % 256

\* The position field written and read only from the version after the one
\* that introduced it.
HasPositionFieldLate(ver) == ver > DualVertexBuffer

\* if (Ar.CustomVer(FRuntimeMeshVersion::GUID) >= FRuntimeMeshVersion::DualVertexBuffer)
HasPositionField(ver) == ver >= DualVertexBuffer

\* Serialize on a saving archive: what it appends to the stream.
SerializedStream(ver, UpdateFreq) ==
    (IF HasPositionField(ver) THEN WriteVectorArray(PositionVertexBuffer) ELSE <<>>)
    \o WriteIntArray(IndexBuffer)
    \o WriteBox(LocalBoundingBox)
    \o WriteBool(CollisionEnabled)
    \o WriteBool(bIsVisible)
    \o WriteInt32(UpdateFreq)

\* Serialize on a loading archive: the fields it assigns, read in order from
\* the stream, and the position in the stream it ends at.  Without the
\* position field the position buffer keeps what it held.
DeserializedFields(ver, data, CurrentPositions) ==
    LET p == IF HasPositionField(ver)
             THEN ReadVectorArray(data, 1)
             ELSE [value |-> CurrentPositions, next |-> 1]
        i == ReadIntArray(data, p.next)
        b == ReadBox(data, i.next)
        c == ReadBool(data, b.next)
        v == ReadBool(data, c.next)
        f == ReadInt32(data, v.next)
    IN  [PositionVertexBuffer |-> p.value,
         IndexBuffer |-> i.value,
         LocalBoundingBox |-> b.value,
         CollisionEnabled |-> c.value,
         bIsVisible |-> v.value,
         UpdateFrequency |-> ToUpdateFrequency(f.value),
         next |-> f.next]

\* The bytes a never-assigned UpdateFrequency may hold.
ByteSamples == { 0, 1, 2, 255 }

\* The serialized fields of the section.
PersistentFields ==
    [PositionVertexBuffer |-> PositionVertexBuffer,
     IndexBuffer |-> IndexBuffer,
     LocalBoundingBox |-> LocalBoundingBox,
     CollisionEnabled |-> CollisionEnabled,
     bIsVisible |-> bIsVisible,
     UpdateFrequency |-> UpdateFrequency]

\* Serialize(Ar) with Ar saving at version ver.  held is the byte UpdateFrequency
\* holds; the function reads it into UpdateFreq and assigns it back.
SerializeSave(ver, held) ==
    /\ alive
    /\ UpdateFrequency = Indeterminate \/ held = UpdateFrequency
    /\ Ar' = [ver |-> ver, data |-> SerializedStream(ver, held), written |-> TRUE]
    /\ UpdateFrequency' = ToUpdateFrequency(held)
    /\ Saved' = << [PersistentFields EXCEPT !.UpdateFrequency = held] >>
    /\ call' = [NoCall EXCEPT !.op = "SerializeSave", !.num = ver]
    /\ UNCHANGED <<alive, layout, buffers, LocalBoundingBox, CollisionEnabled, bIsVisible,
                   bCastsShadow, bShouldUseAdjacencyIndexBuffer, explicitUsed, Payload>>

\* A fresh section of the same layout is constructed and Serialize(Ar) is called
\* on it with Ar loading the stream at the version it was written at.
SerializeLoad(unsetAdjacency) ==
    LET r == DeserializedFields(Ar.ver, Ar.data, <<>>)
    IN  /\ Ar.written
        /\ alive' = TRUE
        /\ PositionVertexBuffer' = r.PositionVertexBuffer
        /\ VertexBuffer' = <<>>
        /\ IndexBuffer' = r.IndexBuffer
        /\ TessellationIndexBuffer' = <<>>
        /\ LocalBoundingBox' = r.LocalBoundingBox
        /\ CollisionEnabled' = r.CollisionEnabled
        /\ bIsVisible' = r.bIsVisible
        /\ bCastsShadow' = TRUE
        /\ bShouldUseAdjacencyIndexBuffer' = unsetAdjacency
        /\ UpdateFrequency' = r.UpdateFrequency
        /\ explicitUsed' = FALSE
        /\ call' = [NoCall EXCEPT !.op = "SerializeLoad", !.num = r.next]
        /\ UNCHANGED <<layout, Payload, Ar, Saved>>

\* ---------------------------------------------------------- specifications

\* The position-only stream under every input, the attribute stream beside it.
NextPositions ==
    \/ \E P \in PositionArrays, B \in BoxPointers, m \in BOOLEAN :
          UpdateVertexPositionBuffer(P, B, m)
    \/ \E V \in SmallVertexArrays(HasPosition), m \in BOOLEAN :
          UpdateVertexBuffer(V, <<>>, m)
    \/ \E A \in OutArrays : GetAllVertexPositions(A)

SpecPositions == Init /\ [][NextPositions]_vars

\* The tracked update path: every update call, none with a bounding box.
NextTracked ==
    \/ \E P \in PositionArrays, m \in BOOLEAN :
          IsDualBufferSection /\ UpdateVertexPositionBuffer(P, <<>>, m)
    \/ \E V \in VertexArrays(HasPosition), m \in BOOLEAN :
          UpdateVertexBuffer(V, <<>>, m)
    \/ \E T \in IndexArrays, m \in BOOLEAN : UpdateIndexBuffer(T, m)
    \/ \E T \in TessellationArrays, m \in BOOLEAN : UpdateTessellationIndexBuffer(T, m)
    \/ RecalculateBoundingBox
    \/ \E T \in TangentArrays : GenerateNormalTangent(T)

SpecTracked == Init /\ [][NextTracked]_vars

\* The vertex stream under every input, the other buffers beside it.
NextVertices ==
    \/ \E V \in VertexArrays(HasPosition), B \in BoxPointers, m \in BOOLEAN :
          UpdateVertexBuffer(V, B, m)
    \/ \E P \in SmallPositionArrays, B \in BoxPointers, m \in BOOLEAN :
          UpdateVertexPositionBuffer(P, B, m)
    \/ \E T \in IndexArrays, m \in BOOLEAN : UpdateIndexBuffer(T, m)
    \/ \E T \in TessellationArrays, m \in BOOLEAN : UpdateTessellationIndexBuffer(T, m)
    \/ \E T \in SmallTangentArrays : GenerateNormalTangent(T)

SpecVertices == Init /\ [][NextVertices]_vars

\* The section's owner on one side, the holder of the last snapshot on the
\* other.
NextSnapshot ==
    \/ \E P \in SmallPositionArrays, m \in BOOLEAN : UpdateVertexPositionBuffer(P, <<>>, m)
    \/ \E V \in SmallVertexArrays(HasPosition), m \in BOOLEAN : UpdateVertexBuffer(V, <<>>, m)
    \/ \E T \in IndexArrays, m \in BOOLEAN : UpdateIndexBuffer(T, m)
    \/ \E T \in TessellationArrays, m \in BOOLEAN : UpdateTessellationIndexBuffer(T, m)
    \/ GenerateTessellationIndices
    \/ \E T \in SmallTangentArrays : GenerateNormalTangent(T)
    \/ \E b \in BOOLEAN : SetShouldUseAdjacencyIndexBuffer(b)
    \/ \E b \in BOOLEAN : GetSectionCreationData(b)
    \/ \E bP \in BOOLEAN, bV \in BOOLEAN, bI \in BOOLEAN, u \in BOOLEAN :
          GetSectionUpdateData(bP, bV, bI, u)
    \/ GetSectionPositionUpdateData
    \/ DestroySection

SpecSnapshot == Init /\ [][NextSnapshot]_vars

\* A section is filled, then written to an archive at some version, then read
\* back into a fresh section.
NextSerialize ==
    \/ \E P \in SmallPositionArrays, B \in BoxPointers, m \in BOOLEAN :
          ~Ar.written /\ UpdateVertexPositionBuffer(P, B, m)
    \/ \E V \in SmallVertexArrays(HasPosition), B \in BoxPointers, m \in BOOLEAN :
          ~Ar.written /\ UpdateVertexBuffer(V, B, m)
    \/ \E T \in IndexArrays, m \in BOOLEAN : ~Ar.written /\ UpdateIndexBuffer(T, m)
    \/ \E b \in BOOLEAN : ~Ar.written /\ SetCollisionEnabled(b)
    \/ \E b \in BOOLEAN : ~Ar.written /\ SetIsVisible(b)
    \/ \E f \in UpdateFrequencies : ~Ar.written /\ SetUpdateFrequency(f)
    \/ \E ver \in 0..MaxVersion, held \in ByteSamples : ~Ar.written /\ SerializeSave(ver, held)
    \/ \E b \in BOOLEAN : SerializeLoad(b)

SpecSerialize == Init /\ [][NextSerialize]_vars

\* Every call, under the inputs of the specifications above.
Next ==
    \/ NextPositions
    \/ NextTracked
    \/ NextVertices
    \/ NextSnapshot
    \/ NextSerialize

Spec == Init /\ [][Next]_vars

\* ------------------------------------------------------------------ claims

Range(Array) == { Array[i] : i \in 1..Len(Array) }

SetMin(S) == CHOOSE x \in S : \A y \in S : x <= y

SetMax(S) == CHOOSE x \in S : \A y \in S : x >= y

\* The tight axis-aligned box of a set of points; the empty set has the empty
\* box, FBox(0).
TightBox(Ps) ==
    IF Ps = {} THEN FBox_Zero
    ELSE [Min |-> <<SetMin({ p[1] : p \in Ps }), SetMin({ p[2] : p \in Ps }),
                    SetMin({ p[3] : p \in Ps })>>,
          Max |-> <<SetMax({ p[1] : p \in Ps }), SetMax({ p[2] : p \in Ps }),
                    SetMax({ p[3] : p \in Ps })>>,
          IsValid |-> 1]

\* Equality of boxes, compared field-wise on the extents.
SameExtents(A, B) == A.Min = B.Min /\ A.Max = B.Max

\* The box an update call computes or is given.
CalledBox(c) == IF c.box = <<>> THEN TightBox(Range(c.arg)) ELSE c.box[1]

\* The positions the section's bounds are about: the position-only stream of
\* a dual-buffer section, else the positions in the vertex records (none when
\* the vertex type has no position).
AuthoritativePositions ==
    IF bNeedsPositionOnlyBuffer
    THEN Range(PositionVertexBuffer)
    ELSE IF HasPosition
         THEN { VertexBuffer[i].Position : i \in 1..Len(VertexBuffer) }
         ELSE {}

\* C1: after UpdateVertexPositionBuffer(P, nullptr) the bounds are the tight
\* box of P, and after UpdateVertexPositionBuffer(P, &B) they are B, whatever
\* P and the section's state before, on the move and on the copy path; the
\* position buffer holds P.
C1_BoundsAfterUpdatePositions ==
    call.op = "UpdateVertexPositionBuffer" =>
        /\ PositionVertexBuffer = call.arg
        /\ call.box = <<>> => SameExtents(LocalBoundingBox, TightBox(Range(call.arg)))
        /\ call.box /= <<>> => SameExtents(LocalBoundingBox, call.box[1])

\* C1 witness: a copy-path update with a bounding box that is not the tight
\* box of the two positions passed.
C1_Witness ==
    /\ call.op = "UpdateVertexPositionBuffer"
    /\ ~call.move
    /\ call.box /= <<>>
    /\ Len(call.arg) = 2
    /\ ~SameExtents(call.box[1], TightBox(Range(call.arg)))

\* C2: UpdateVertexPositionBuffer returns true exactly when the box it
\* computed or was given differs from the bounds stored before the call; when
\* it returns false the stored bounds are untouched; a call repeating the
\* positions of the call before it, both without a bounding box, returns false.
C2_ReturnsWhetherBoundsChanged ==
    [][call'.op = "UpdateVertexPositionBuffer" =>
          /\ call'.ret <=> ~SameExtents(CalledBox(call'), LocalBoundingBox)
          /\ ~call'.ret => LocalBoundingBox' = LocalBoundingBox
          /\ (/\ call.op = "UpdateVertexPositionBuffer"
              /\ call.arg = call'.arg
              /\ call.box = <<>>
              /\ call'.box = <<>>) => ~call'.ret]_vars

\* C2 witness: an update of two positions spanning a box, without a bounding
\* box, that returned false.
C2_Witness ==
    /\ call.op = "UpdateVertexPositionBuffer"
    /\ call.box = <<>>
    /\ Len(call.arg) = 2
    /\ LocalBoundingBox.Min /= LocalBoundingBox.Max
    /\ ~call.ret

\* C5 as claimed: as long as no call has passed a bounding box, the bounds
\* are the tight box of the authoritative positions: the position buffer of a
\* section constructed dual-buffer, the vertices' positions otherwise. The
\* code breaks it on a dual-buffer section of a vertex type with a position,
\* where UpdateVertexBuffer takes the bounds from the vertices.
C5_BoundsTrackPositions ==
    ~explicitUsed => SameExtents(LocalBoundingBox, TightBox(AuthoritativePositions))

\* C6 as claimed: on a section constructed dual-buffer UpdateVertexBuffer
\* returns false and replaces the vertex buffer alone: the bounds, the
\* position buffer, the index buffer and the tessellation index buffer stay as
\* they were. The code selects the overload by the vertex type, not by the
\* buffer mode, and breaks it when the vertex type has a position.
C6_DualVertexUpdateLeavesBounds ==
    [][(bNeedsPositionOnlyBuffer /\ call'.op = "UpdateVertexBuffer") =>
          /\ ~call'.ret
          /\ VertexBuffer' = call'.arg
          /\ LocalBoundingBox' = LocalBoundingBox
          /\ PositionVertexBuffer' = PositionVertexBuffer
          /\ IndexBuffer' = IndexBuffer
          /\ TessellationIndexBuffer' = TessellationIndexBuffer]_vars

\* C7 as claimed: on a section constructed dual-buffer GetAllVertexPositions
\* hands the caller the position buffer, element for element, after what the
\* caller's array held, returns its length, and leaves the section as it was.
\* The code selects the overload by the vertex type and hands over the
\* vertices' positions when the vertex type has one.
C7_DualPositionsAreThePositionBuffer ==
    [][(bNeedsPositionOnlyBuffer /\ call'.op = "GetAllVertexPositions") =>
          /\ call'.after = call'.before \o PositionVertexBuffer
          /\ call'.num = Len(PositionVertexBuffer)
          /\ UNCHANGED <<alive, layout, buffers, LocalBoundingBox, flags>>]_vars

SnapshotCalls == { "GetSectionCreationData", "GetSectionUpdateData",
                   "GetSectionPositionUpdateData" }

\* What the holder of the last payload reads in its three buffers.
PayloadContents ==
    IF Payload = <<>> THEN <<>>
    ELSE [PositionVertexBuffer |-> Contents(Payload[1].PositionVertexBuffer),
          VertexBuffer |-> Contents(Payload[1].VertexBuffer),
          IndexBuffer |-> Contents(Payload[1].IndexBuffer)]

\* The section's fields, all of them.
SectionFields == <<layout, buffers, LocalBoundingBox, flags>>

\* C3: once a payload is built, no later update or destruction of the section
\* changes what its holder reads in it.
C3_PayloadIsIndependentCopy ==
    [][(Payload /= <<>> /\ call'.op \notin SnapshotCalls) =>
          PayloadContents' = PayloadContents]_vars

\* C3 witness: the section destroyed while the payload built from it still
\* holds its vertices and indices.
C3_Witness ==
    /\ ~alive
    /\ Payload /= <<>>
    /\ PayloadContents.VertexBuffer /= <<>>
    /\ PayloadContents.IndexBuffer /= <<>>

\* C4 as claimed: with the flag set and a non-empty tessellation buffer
\* GetSectionCreationData hands over the tessellation buffer, marked as
\* adjacency; with an empty tessellation buffer it hands over the index buffer.
C4_CallerFlagSelectsTessellation ==
    [][call'.op = "GetSectionCreationData" =>
          /\ (bShouldUseAdjacencyIndexBuffer /\ TessellationIndexBuffer /= <<>>) =>
                 /\ PayloadContents'.IndexBuffer = TessellationIndexBuffer
                 /\ Payload'[1].bIsAdjacencyIndexBuffer
          /\ TessellationIndexBuffer = <<>> =>
                 /\ PayloadContents'.IndexBuffer = IndexBuffer
                 /\ ~Payload'[1].bIsAdjacencyIndexBuffer]_vars

\* C4 amended: GetSectionCreationData overwrites the flag with the answer of
\* the proxy it creates; it hands over the tessellation buffer, marked as
\* adjacency, exactly when that answer is true and the tessellation buffer is
\* non-empty, and the index buffer otherwise, whatever the flag was before.
C4_ProxySelectsTessellation ==
    [][call'.op = "GetSectionCreationData" =>
          /\ bShouldUseAdjacencyIndexBuffer' = call'.ret
          /\ (call'.ret /\ TessellationIndexBuffer /= <<>>) =>
                 /\ PayloadContents'.IndexBuffer = TessellationIndexBuffer
                 /\ Payload'[1].bIsAdjacencyIndexBuffer
          /\ ~(call'.ret /\ TessellationIndexBuffer /= <<>>) =>
                 /\ PayloadContents'.IndexBuffer = IndexBuffer
                 /\ ~Payload'[1].bIsAdjacencyIndexBuffer]_vars

\* C4 witness: a creation payload carrying a generated tessellation buffer
\* that differs from the index buffer.
C4_Witness ==
    /\ call.op = "GetSectionCreationData"
    /\ call.ret
    /\ Payload[1].bIsAdjacencyIndexBuffer
    /\ TessellationIndexBuffer = 
          GenerateTessellationIndexBuffer(PositionVertexBuffer, VertexBuffer, IndexBuffer, 1)
    /\ PayloadContents.IndexBuffer = TessellationIndexBuffer
    /\ PayloadContents.IndexBuffer /= IndexBuffer

\* C9: an update payload records the three flags it was asked with, carries
\* the position, vertex and index buffer for the flags set and empty arrays
\* for the others; its index buffer is the tessellation buffer when the
\* adjacency flag is set and that buffer is non-empty, else the index buffer.
C9_UpdatePayloadFollowsFlags ==
    (call.op = "GetSectionUpdateData") =>
        LET p == Payload[1]
            tess == bShouldUseAdjacencyIndexBuffer /\ TessellationIndexBuffer /= <<>>
        IN  /\ p.kind = "Update"
            /\ <<p.bIncludePositionBuffer, p.bIncludeVertexBuffer, p.bIncludeIndices>> = call.arg
            /\ PayloadContents.PositionVertexBuffer =
                   IF call.arg[1] THEN PositionVertexBuffer ELSE <<>>
            /\ PayloadContents.VertexBuffer = IF call.arg[2] THEN VertexBuffer ELSE <<>>
            /\ PayloadContents.IndexBuffer =
                   IF ~call.arg[3] THEN <<>>
                   ELSE IF tess THEN TessellationIndexBuffer ELSE IndexBuffer
            /\ call.arg[3] => (p.bIsAdjacencyIndexBuffer <=> tess)

\* C9 witness: an index-only update of a section whose adjacency flag is set
\* and whose buffers are all filled.
C9_Witness ==
    /\ call.op = "GetSectionUpdateData"
    /\ call.arg = <<FALSE, FALSE, TRUE>>
    /\ bShouldUseAdjacencyIndexBuffer
    /\ bNeedsPositionOnlyBuffer
    /\ PositionVertexBuffer /= <<>>
    /\ VertexBuffer /= <<>>
    /\ IndexBuffer /= <<>>
    /\ TessellationIndexBuffer /= <<>>
    /\ TessellationIndexBuffer /= IndexBuffer

\* C10 as claimed: the three snapshot calls leave every field of the section
\* as it was.
C10_SnapshotsReadOnly ==
    [][call'.op \in SnapshotCalls => SectionFields' = SectionFields]_vars

\* C10 amended: the update and the position-update snapshot leave every field
\* as it was; the creation snapshot leaves every field but
\* bShouldUseAdjacencyIndexBuffer, which it sets to the new proxy's answer.
C10_SnapshotsWriteOnlyAdjacencyFlag ==
    [][call'.op \in SnapshotCalls =>
          /\ UNCHANGED <<layout, buffers, LocalBoundingBox, CollisionEnabled, bIsVisible,
                         bCastsShadow, UpdateFrequency>>
          /\ bShouldUseAdjacencyIndexBuffer' =
                 IF call'.op = "GetSectionCreationData"
                 THEN call'.ret
                 ELSE bShouldUseAdjacencyIndexBuffer]_vars

\* C10 witness: a creation snapshot of a section with every buffer filled
\* whose proxy asked for no adjacency.
C10_Witness ==
    /\ call.op = "GetSectionCreationData"
    /\ ~call.ret
    /\ ~bShouldUseAdjacencyIndexBuffer
    /\ VertexBuffer /= <<>>
    /\ IndexBuffer /= <<>>
    /\ TessellationIndexBuffer /= <<>>

\* The length of the stream of the saved fields without a position field.
StreamLengthWithoutPositions(fields) == (1 + Len(fields.IndexBuffer)) + 7 + 1 + 1 + 1

\* C8: a section read back from the stream it was written to, at the version
\* it was written at, has the index buffer, bounds, collision flag, visibility
\* flag and update frequency it was saved with; from the dual-vertex-buffer
\* version on the stream also carries the position buffer, which is read back
\* as saved; below that version the stream carries no position field and none
\* is read: the fresh section's position buffer stays empty.  The reader ends
\* at the end of the stream.
C8_SerializeRoundTrip ==
    call.op = "SerializeLoad" =>
        LET saved == Saved[1]
        IN  /\ IndexBuffer = saved.IndexBuffer
            /\ LocalBoundingBox = saved.LocalBoundingBox
            /\ CollisionEnabled = saved.CollisionEnabled
            /\ bIsVisible = saved.bIsVisible
            /\ UpdateFrequency = saved.UpdateFrequency
            /\ call.num = Len(Ar.data) + 1
            /\ Ar.ver >= DualVertexBuffer =>
                   /\ PositionVertexBuffer = saved.PositionVertexBuffer
                   /\ Len(Ar.data) = StreamLengthWithoutPositions(saved)
                                     + 1 + 3 * Len(saved.PositionVertexBuffer)
            /\ Ar.ver < DualVertexBuffer =>
                   /\ PositionVertexBuffer = <<>>
                   /\ Len(Ar.data) = StreamLengthWithoutPositions(saved)

\* C8 witness: a section holding positions and indices read back from a
\* stream of the version before the dual vertex buffer.
C8_Witness ==
    /\ call.op = "SerializeLoad"
    /\ Ar.ver = DualVertexBuffer - 1
    /\ Saved[1].PositionVertexBuffer /= <<>>
    /\ Saved[1].IndexBuffer /= <<>>
    /\ Saved[1].CollisionEnabled
    /\ ~Saved[1].bIsVisible
    /\ Saved[1].LocalBoundingBox.Min /= Saved[1].LocalBoundingBox.Max

====
